---- MODULE Spec2Model ----
(***************************************************************************)
(* State-machine model of the Vimeo HLS player widget:                     *)
(*   VimeoAPI        (resolver, two variants of getHLSFromPlayer)           *)
(*   HLSPlayer       (stream-engine adapter: loadSource, registry, destroy) *)
(*   VideoControls   (overlay: registry callbacks, teardown)                *)
(*   VimeoHLSPlayer  (facade: initialize, loadHLS, loadVimeo, destroy)      *)
(* Strings of the resolver input are sequences of symbols: the literals the *)
(* regular expressions of extractVideoId look for, digits, and one other    *)
(* character.                                                               *)
(***************************************************************************)
EXTENDS Integers, Sequences, FiniteSets, TLC

\* ------------------------------------------------------------------ bounds
MaxLoads == 1
MaxUserOps == 1
MaxEngineEvents == 1
MaxPageCalls == 3
MaxDrags == 2
MaxHours == 1
MaxUrlLen == 4

\* ------------------------------------------------------------ plain values
NULL == "null"

Events == {"play", "pause", "ended", "timeupdate", "loadedmetadata", "error"}

Digits == {"1", "2"}

\* A JavaScript string value and the object getHLSFromPlayer may return.
Str(u) == [t |-> "string", v |-> u]
Obj(u) == [t |-> "object", hlsUrl |-> u, posterUrl |-> NULL]

Undefined == [t |-> "undefined"]

Falsy(val) == val = Undefined \/ val = Str("")

\* What assigning the value to video.src stores (the value's string form).
ToSrc(val) == IF val.t = "string" THEN val.v ELSE "[object Object]"

\* --------------------------------------------------------- extractVideoId
RECURSIVE DigitRun(_, _)
DigitRun(s, i) ==
  IF i <= Len(s) /\ s[i] \in Digits THEN <<s[i]>> \o DigitRun(s, i + 1) ELSE <<>>

IsPrefixAt(lit, s, i) ==
  /\ i + Len(lit) - 1 <= Len(s)
  /\ \A k \in 1..Len(lit) : s[i + k - 1] = lit[k]

\* A failed match, and the null extractVideoId returns (no capture is empty).
NoMatch == <<>>

\* url.match(/<lit>(\d+)/): the leftmost place where lit is followed by a
\* digit; the capture is the longest run of digits there.
MatchPattern(lit, s) ==
  LET hits == {i \in 1..Len(s) :
                 IsPrefixAt(lit, s, i) /\ DigitRun(s, i + Len(lit)) # <<>>}
  IN IF hits = {} THEN NoMatch
     ELSE LET i == CHOOSE j \in hits : \A k \in hits : j <= k
          IN DigitRun(s, i + Len(lit))

patterns ==
  << <<"vimeo.com/">>,
     <<"vimeo.com/", "video/">>,
     <<"player.", "vimeo.com/", "video/">> >>

AllDigits(s) == s # <<>> /\ \A i \in 1..Len(s) : s[i] \in Digits

\* extractVideoId without the test for a bare number.
extractVideoIdUrlsOnly(url) ==
  LET m == [p \in 1..Len(patterns) |-> MatchPattern(patterns[p], url)]
      matched == {p \in 1..Len(patterns) : m[p] # NoMatch}
  IN IF matched # {}
       THEN m[CHOOSE p \in matched : \A q \in matched : p <= q]
       ELSE NoMatch

extractVideoId(url) ==
  LET m == [p \in 1..Len(patterns) |-> MatchPattern(patterns[p], url)]
      matched == {p \in 1..Len(patterns) : m[p] # NoMatch}
  IN IF matched # {}
       THEN m[CHOOSE p \in matched : \A q \in matched : p <= q]
       ELSE IF AllDigits(url) THEN url ELSE NoMatch

\* ------------------------------------------------------------------- state
VARIABLES
  hlsSupported,    \* Hls.isSupported() on this platform
  canPlayNative,   \* video.canPlayType('application/vnd.apple.mpegurl')
  apiVariant,      \* which getHLSFromPlayer the build binds: "object" | "string"
  options,         \* the merged options of the facade
  classes,         \* container.classList
  controlsElement, \* "none" | "attached" | "removed"
  videoAttached,   \* the video element is a child of the container
  panels,          \* the error panels appended to the container, in order
  initPc,          \* initialize(): "awaitLoad" | "done"
  listeners,       \* HLSPlayer.listeners
  hls,             \* HLSPlayer.hls: 0 (null) or the index of an engine
  engines,         \* every Hls instance created so far
  src,             \* video.src
  paused,          \* video.paused
  muted,           \* video.muted
  volume,          \* video.volume, in halves (2 is full volume)
  currentTime,     \* video.currentTime, in half seconds
  duration,        \* video.duration, in half seconds, or NaN
  playShown,       \* the overlay shows the play icon (not the pause icon)
  mutedShown,      \* the overlay shows the muted icon (not the volume icon)
  timeCurrent,     \* the text of the overlay's current-time field
  timeDuration,    \* the text of the overlay's duration field
  hideTimeout,     \* VideoControls.hideTimeout: 0 (null) or a timer id
  timers,          \* the pending setTimeout callbacks: id -> seconds left
  idle,            \* seconds since the last pointer movement (capped)
  docListeners,    \* the drag closures installed on document, per event
  loads,           \* one record per loadHLS / loadVimeo call
  userOps,         \* on/off and playback calls made by the embedding page
  envEvents,       \* engine and media events delivered so far
  last             \* what the last step did

vars ==
  <<hlsSupported, canPlayNative, apiVariant, options, classes,
    controlsElement, videoAttached, panels, initPc, listeners, hls, engines,
    src, paused, muted, volume, currentTime, duration, playShown, mutedShown,
    timeCurrent, timeDuration, hideTimeout, timers, idle, docListeners, loads,
    userOps, envEvents, last>>

\* The callbacks the registry can hold. The first seven are the closures of
\* VideoControls.attachEventListeners, the next two those of the facade, the
\* rest are the embedding page's.
ControlCallbacks ==
  {"ctlPlay", "ctlPause", "ctlEnded", "ctlProgress", "ctlDuration",
   "ctlStartAutoHide", "ctlStopAutoHide"}
FacadeCallbacks == {"facadeLoadingOff", "facadeShowError"}
UserCallbacks == {"userA", "userThrow"}

\* Callbacks of the page that call player.off / player.on for `play` and the
\* callback "userB" while they run.
ReentrantCallbacks == {"userOffB", "userOnB"}

\* The part of the state synchronous code reads and writes, with what the
\* running step has observed so far: the callbacks invoked, the arguments of
\* the loadSource calls, the messages the facade's catch blocks caught, and
\* the exception in flight.
Ctx ==
  [listeners |-> listeners, panels |-> panels, classes |-> classes,
   hls |-> hls, engines |-> engines, src |-> src,
   playShown |-> playShown, hideTimeout |-> hideTimeout, timers |-> timers,
   timeCurrent |-> timeCurrent, timeDuration |-> timeDuration,
   invoked |-> <<>>, calls |-> <<>>, caught |-> <<>>, thrown |-> NULL]

Commit(c) ==
  /\ listeners' = c.listeners
  /\ panels' = c.panels
  /\ classes' = c.classes
  /\ hls' = c.hls
  /\ engines' = c.engines
  /\ src' = c.src
  /\ playShown' = c.playShown
  /\ hideTimeout' = c.hideTimeout
  /\ timers' = c.timers
  /\ timeCurrent' = c.timeCurrent
  /\ timeDuration' = c.timeDuration

\* ------------------------------------------------- HLSPlayer: the registry
EmptyRegistry == [e \in {} |-> <<>>]

HLSPlayerListeners == [e \in Events |-> <<>>]

\* on without the check that the registry knows the event: pushing to a
\* missing array raises.
onUnguarded(event, callback, c) ==
  IF event \in DOMAIN c.listeners
    THEN [c EXCEPT !.listeners[event] = Append(@, callback)]
    ELSE [c EXCEPT !.thrown = "TypeError"]

\* on that puts the callback in front (unshift for push).
onPrepend(event, callback, c) ==
  IF event \in DOMAIN c.listeners
    THEN [c EXCEPT !.listeners[event] = <<callback>> \o @]
    ELSE c

on(event, callback, c) ==
  IF event \in DOMAIN c.listeners
    THEN [c EXCEPT !.listeners[event] = Append(@, callback)]
    ELSE c

off(event, callback, c) ==
  IF event \in DOMAIN c.listeners
    THEN [c EXCEPT !.listeners[event] = SelectSeq(@, LAMBDA cb : cb # callback)]
    ELSE c

showError(title, message, c) ==
  [c EXCEPT !.panels = Append(@, [title |-> title, message |-> message])]

\* ------------------------------------------- VideoControls: formatTime
\* Times are counted in half seconds, so that a fractional time exists; NaN
\* is the duration of a media element without metadata.
UnitsPerSecond == 2
NaN == -1

DigitChars == <<"0", "1", "2", "3", "4", "5", "6", "7", "8", "9">>

\* Number.prototype.toString of a non-negative whole number.
RECURSIVE toString(_)
toString(n) ==
  IF n < 10 THEN <<DigitChars[n + 1]>>
  ELSE toString(n \div 10) \o <<DigitChars[(n % 10) + 1]>>

\* String.prototype.padStart with a one-character pad string.
RECURSIVE padStart(_, _, _)
padStart(str, targetLength, padString) ==
  IF Len(str) >= targetLength THEN str
  ELSE padStart(<<padString>> \o str, targetLength, padString)

\* formatTime that does not pad the seconds.
formatTimeUnpadded(seconds) ==
  IF seconds = NaN THEN <<"0", ":", "0", "0">>
  ELSE LET h == seconds \div (3600 * UnitsPerSecond)
           m == (seconds % (3600 * UnitsPerSecond)) \div (60 * UnitsPerSecond)
           s == (seconds % (60 * UnitsPerSecond)) \div UnitsPerSecond
       IN IF h > 0
            THEN toString(h) \o <<":">> \o padStart(toString(m), 2, "0")
                   \o <<":">> \o toString(s)
            ELSE toString(m) \o <<":">> \o toString(s)

formatTime(seconds) ==
  IF seconds = NaN THEN <<"0", ":", "0", "0">>
  ELSE LET h == seconds \div (3600 * UnitsPerSecond)
           m == (seconds % (3600 * UnitsPerSecond)) \div (60 * UnitsPerSecond)
           s == (seconds % (60 * UnitsPerSecond)) \div UnitsPerSecond
       IN IF h > 0
            THEN toString(h) \o <<":">> \o padStart(toString(m), 2, "0")
                   \o <<":">> \o padStart(toString(s), 2, "0")
            ELSE toString(m) \o <<":">> \o padStart(toString(s), 2, "0")

\* ------------------------------------------- VideoControls: auto-hide
HideDelay == 3

Visible == "vimeo-hls-controls-visible"

clearTimeout(id, pending) == [i \in DOMAIN pending \ {id} |-> pending[i]]

\* setTimeout returns an id no pending timer has and the caller does not hold.
NewTimerId(c) ==
  CHOOSE n \in 1..(Cardinality(DOMAIN c.timers) + 2) :
    /\ n \notin DOMAIN c.timers \cup {c.hideTimeout}
    /\ \A k \in 1..(n - 1) : k \in DOMAIN c.timers \cup {c.hideTimeout}

setTimeout(id, delay, pending) ==
  [i \in DOMAIN pending \cup {id} |-> IF i = id THEN delay ELSE pending[i]]

stopAutoHide(c) ==
  IF c.hideTimeout # 0
    THEN [c EXCEPT !.timers = clearTimeout(c.hideTimeout, @), !.hideTimeout = 0]
    ELSE c

\* startAutoHide that does not cancel the timer it replaces.
startAutoHideNoStop(c) ==
  LET id == NewTimerId(c)
  IN [c EXCEPT !.timers = setTimeout(id, HideDelay, @), !.hideTimeout = id]

startAutoHide(c) ==
  LET c1 == stopAutoHide(c)
      id == NewTimerId(c1)
  IN [c1 EXCEPT !.timers = setTimeout(id, HideDelay, @), !.hideTimeout = id]

showControls(c) ==
  startAutoHide(stopAutoHide([c EXCEPT !.classes = @ \cup {Visible}]))

\* hideControls without the check that the media is playing.
hideControlsUnguarded(c) == [c EXCEPT !.classes = @ \ {Visible}]

hideControls(c) ==
  IF ~paused THEN [c EXCEPT !.classes = @ \ {Visible}] ELSE c

\* One callback of the registry, called with the emitted data.
RunCallback(cb, data, c) ==
  CASE cb = "facadeShowError" ->
         showError("Failed to load video",
                   IF data.message = NULL THEN "Unknown error" ELSE data.message, c)
    [] cb = "facadeLoadingOff" -> [c EXCEPT !.classes = @ \ {"loading"}]
    [] cb = "ctlPlay" -> [c EXCEPT !.playShown = FALSE]
    [] cb \in {"ctlPause", "ctlEnded"} -> [c EXCEPT !.playShown = TRUE]
    [] cb = "ctlProgress" -> [c EXCEPT !.timeCurrent = formatTime(currentTime)]
    [] cb = "ctlDuration" -> [c EXCEPT !.timeDuration = formatTime(duration)]
    [] cb = "ctlStartAutoHide" -> startAutoHide(c)
    [] cb = "ctlStopAutoHide" -> stopAutoHide(c)
    [] cb = "userThrow" -> [c EXCEPT !.thrown = "listener threw"]
    [] cb = "userOffB" -> off("play", "userB", c)
    [] cb = "userOnB" -> on("play", "userB", c)
    [] OTHER -> c

\* Array.prototype.forEach over the array the registry held when emit began;
\* an exception ends the iteration and leaves emit. forEach reads the length
\* once, before the first callback, and visits the places below it: on()
\* pushes behind them, off() and destroy() give the registry another array
\* and leave this one as it was.
RECURSIVE ForEach(_, _, _, _, _)
ForEach(cbs, i, event, data, c) ==
  IF i > Len(cbs) \/ c.thrown # NULL THEN c
  ELSE ForEach(cbs, i + 1, event, data,
               RunCallback(cbs[i], data,
                 [c EXCEPT !.invoked =
                    Append(@, [cb |-> cbs[i], event |-> event, data |-> data.kind])]))

\* emit with its loop in a try/catch that swallows the exception.
emitIsolated(event, data, c) ==
  IF event \in DOMAIN c.listeners
    THEN [ForEach(c.listeners[event], 1, event, data, c) EXCEPT !.thrown = NULL]
    ELSE c

\* emit that goes on to the callbacks pushed while it was delivering.
emitReachesAdded(event, data, c) ==
  IF event \in DOMAIN c.listeners
    THEN LET c1 == ForEach(c.listeners[event], 1, event, data, c)
             now == IF event \in DOMAIN c1.listeners THEN c1.listeners[event] ELSE <<>>
         IN ForEach(SubSeq(now, Len(c.listeners[event]) + 1, Len(now)), 1,
                    event, data, c1)
    ELSE c

emit(event, data, c) ==
  IF event \in DOMAIN c.listeners
    THEN ForEach(c.listeners[event], 1, event, data, c)
    ELSE c

\* destroy that releases the reference without destroying the engine.
destroyLeavesEngine(c) ==
  [c EXCEPT !.hls = 0, !.src = "", !.listeners = EmptyRegistry]

\* HLSPlayer.destroy
destroy(c) ==
  LET c1 == IF c.hls # 0
              THEN [c EXCEPT !.engines[c.hls].destroyed = TRUE, !.hls = 0]
              ELSE c
  IN [c1 EXCEPT !.src = "", !.listeners = EmptyRegistry]

\* ---------------------------------------------- HLSPlayer.loadSource
NewEngine(val) ==
  [url |-> val, destroyed |-> FALSE, startLoad |-> 0, recoverMediaError |-> 0]

\* loadSource that prefers the media element's own HLS support.
loadSourceNativeFirst(hlsUrl, c0) ==
  LET c == [c0 EXCEPT !.calls = Append(@, hlsUrl)]
  IN IF Falsy(hlsUrl) THEN c
     ELSE IF canPlayNative
       THEN [c EXCEPT !.src = ToSrc(hlsUrl)]
     ELSE IF hlsSupported
       THEN [c EXCEPT !.engines = Append(@, NewEngine(hlsUrl)),
                      !.hls = Len(c.engines) + 1]
     ELSE emit("error", [kind |-> "unsupported", message |-> "HLS not supported"], c)

loadSource(hlsUrl, c0) ==
  LET c == [c0 EXCEPT !.calls = Append(@, hlsUrl)]
  IN IF Falsy(hlsUrl) THEN c
     ELSE IF hlsSupported
       THEN [c EXCEPT !.engines = Append(@, NewEngine(hlsUrl)),
                      !.hls = Len(c.engines) + 1]
     ELSE IF canPlayNative
       THEN [c EXCEPT !.src = ToSrc(hlsUrl)]
     ELSE emit("error", [kind |-> "unsupported", message |-> "HLS not supported"], c)

\* The handler loadSource subscribes to Hls.Events.ERROR. this.hls is the
\* adapter's current engine, which need not be the engine that reports.
EngineErrorHandler(data, c) ==
  LET onCurrent(field) ==
        IF c.hls = 0 THEN [c EXCEPT !.thrown = "TypeError"]
        ELSE [c EXCEPT !.engines[c.hls][field] = @ + 1]
      c1 == IF ~data.fatal THEN c
            ELSE CASE data.type = "networkError" -> onCurrent("startLoad")
                   [] data.type = "mediaError" -> onCurrent("recoverMediaError")
                   [] OTHER -> destroy(c)
  IN IF c1.thrown # NULL THEN c1
     ELSE emit("error", [kind |-> "engine", message |-> NULL], c1)

\* ------------------------------------------------------------ VimeoAPI
PlayerOutcomes == {"hls", "noHls", "fetchError"}
ApiOutcomes == {"hls", "noHlsFile", "notOk", "fetchError"}

Ok(val) == [ok |-> TRUE, value |-> val, message |-> NULL]
Throw(msg) == [ok |-> FALSE, value |-> Undefined, message |-> msg]

\* getHLSFromPlayer that returns { hlsUrl, posterUrl }.
getHLSFromPlayerObject(outcome) ==
  CASE outcome = "hls" -> Ok(Obj("urlPlayer"))
    [] outcome = "noHls" -> Throw("Could not extract HLS URL from player")
    [] OTHER -> Throw("CORS_ERROR")

\* getHLSFromPlayer that returns the URL string.
getHLSFromPlayerString(outcome) ==
  CASE outcome = "hls" -> Ok(Str("urlPlayer"))
    [] outcome = "noHls" -> Throw("Could not extract HLS URL from player")
    [] OTHER -> Throw("Failed to fetch")

getHLSFromPlayer(outcome) ==
  IF apiVariant = "object" THEN getHLSFromPlayerObject(outcome)
  ELSE getHLSFromPlayerString(outcome)

\* getVideoData; the value is the hlsUrl field of the returned record.
getVideoData(outcome) ==
  CASE outcome = "hls" -> Ok(Str("urlApi"))
    [] outcome = "noHlsFile" -> Ok(Undefined)
    [] outcome = "notOk" -> Throw("Failed to fetch video data")
    [] OTHER -> Throw("Failed to fetch")

\* ----------------------------------------------- VimeoHLSPlayer: loading
TokenRequired == "Could not load video. For private videos, provide a Vimeo access token."
NoHlsAvailable == "No HLS stream available for this video"

\* loadHLS that hands loadSource the hlsUrl option, not its argument.
loadHLSOptionUrl(hlsUrl, c0) ==
  LET c1 == [c0 EXCEPT !.classes = @ \cup {"loading"}]
      c2 == loadSource(IF options.hlsUrl = NULL THEN Undefined
                       ELSE Str(options.hlsUrl), c1)
  IN IF c2.thrown # NULL
       THEN showError("Failed to load HLS stream", c2.thrown,
              [c2 EXCEPT !.classes = @ \ {"loading"},
                         !.caught = Append(@, c2.thrown),
                         !.thrown = NULL])
       ELSE on("loadedmetadata", "facadeLoadingOff", c2)

\* loadHLS without its try/catch.
loadHLSNoCatch(hlsUrl, c0) ==
  LET c1 == [c0 EXCEPT !.classes = @ \cup {"loading"}]
      c2 == loadSource(hlsUrl, c1)
  IN IF c2.thrown # NULL THEN c2
     ELSE on("loadedmetadata", "facadeLoadingOff", c2)

\* loadHLS that returns at once while a load is in progress.
loadHLSGuarded(hlsUrl, c0) ==
  IF "loading" \in c0.classes THEN c0
  ELSE
    LET c1 == [c0 EXCEPT !.classes = @ \cup {"loading"}]
        c2 == loadSource(hlsUrl, c1)
    IN IF c2.thrown # NULL
         THEN showError("Failed to load HLS stream", c2.thrown,
                [c2 EXCEPT !.classes = @ \ {"loading"},
                           !.caught = Append(@, c2.thrown),
                           !.thrown = NULL])
         ELSE on("loadedmetadata", "facadeLoadingOff", c2)

\* The synchronous body of loadHLS (it has no await).
loadHLS(hlsUrl, c0) ==
  LET c1 == [c0 EXCEPT !.classes = @ \cup {"loading"}]
      c2 == loadSource(hlsUrl, c1)
  IN IF c2.thrown # NULL
       THEN showError("Failed to load HLS stream", c2.thrown,
              [c2 EXCEPT !.classes = @ \ {"loading"},
                         !.caught = Append(@, c2.thrown),
                         !.thrown = NULL])
       ELSE on("loadedmetadata", "facadeLoadingOff", c2)

\* The outer catch block of loadVimeo.
loadVimeoCatch(message, c) ==
  showError("Failed to load Vimeo video", message,
    [c EXCEPT !.classes = @ \ {"loading"}, !.caught = Append(@, message)])

\* The identifier without the fallback to the raw input.
videoIdNoFallback(vimeoId) == extractVideoId(vimeoId)

\* The authenticated path taken whether or not a token was given.
tokenIgnored(accessToken) == TRUE

\* loadVimeo: `extractVideoId(vimeoId) || vimeoId`, and `if (accessToken)`.
videoIdOf(vimeoId) ==
  LET m == extractVideoId(vimeoId)
  IN IF m # NoMatch THEN m ELSE vimeoId

tokenSupplied(accessToken) == accessToken # NULL

\* ------------------------------------------------------------- bookkeeping
ErrorListeners(reg) == IF "error" \in DOMAIN reg THEN reg["error"] ELSE <<>>

\* The callbacks a step invoked for `error`, in order.
ErrorInvoked(c) ==
  LET picked == SelectSeq(c.invoked, LAMBDA r : r.event = "error")
  IN [i \in 1..Len(picked) |-> picked[i].cb]

\* The array the registry holds for an event (none after destroy).
Registered(reg, event) == IF event \in DOMAIN reg THEN reg[event] ELSE <<>>

\* What a step did: c is the state it left, before the state it began in.
\* A step of the registry also records its event, its callback and the array
\* it found; a step with a numeric input records it, a pointer movement the
\* number of seeks it made, and a call of the resolver its input and result.
Last(op, c, before) ==
  [op |-> op, invoked |-> c.invoked, calls |-> c.calls, caught |-> c.caught,
   thrown |-> c.thrown, errorBefore |-> ErrorListeners(before.listeners),
   hlsBefore |-> before.hls,
   event |-> NULL, callback |-> NULL, arrayBefore |-> <<>>, arg |-> 0, seeks |-> 0,
   url |-> <<>>, id |-> NoMatch]

RegistryStep(op, event, callback, c, before) ==
  [Last(op, c, before) EXCEPT
     !.event = event, !.callback = callback,
     !.arrayBefore = Registered(before.listeners, event)]

NewLoad(kind, url, vimeoId, token, fromInit) ==
  [kind |-> kind, url |-> url, vimeoId |-> vimeoId, token |-> token,
   videoId |-> <<>>, pc |-> "start", fromInit |-> fromInit,
   playerOutcome |-> NULL, apiOutcome |-> NULL,
   calls |-> <<>>, net |-> <<>>, panels |-> <<>>, caught |-> <<>>,
   notified |-> <<>>, errorAtFail |-> <<>>, rejected |-> FALSE]

\* The load record after one of its steps took the state from before to c.
Stepped(ld, pc, c, before) ==
  [ld EXCEPT !.pc = pc,
             !.calls = @ \o c.calls,
             !.panels = @ \o SubSeq(c.panels, Len(before.panels) + 1, Len(c.panels)),
             !.caught = @ \o c.caught,
             !.notified = @ \o ErrorInvoked(c),
             !.errorAtFail = IF c.caught # <<>> THEN ErrorListeners(before.listeners) ELSE @,
             !.rejected = @ \/ c.thrown # NULL]

\* loadVimeo up to its first await: the marker, then the identifier and the
\* request getHLSFromPlayer sends.
loadVimeoEnter(c) == [c EXCEPT !.classes = @ \cup {"loading"}]

loadVimeoStart(ld, c, before) ==
  LET videoId == videoIdOf(ld.vimeoId)
  IN [Stepped(ld, "awaitPlayer", c, before) EXCEPT
        !.videoId = videoId,
        !.net = Append(@, [endpoint |-> "player", id |-> videoId])]

\* ------------------------------------------------ construction (Init)
DirectUrls == {"urlDirect"}
VimeoInputs == {<<"vimeo.com/", "1">>, <<"x">>}
Tokens == {NULL, "token"}

OptionSets ==
  [hlsUrl : {NULL} \cup DirectUrls, vimeoId : {<<>>} \cup VimeoInputs,
   vimeoAccessToken : Tokens, controls : BOOLEAN, muted : BOOLEAN]

\* The text the markup of createControls gives both time fields.
InitialClock == <<"0", ":", "0", "0">>

\* new VideoControls: the overlay's subscriptions, in source order.
ControlSubscriptions ==
  << <<"play", "ctlPlay">>, <<"pause", "ctlPause">>, <<"ended", "ctlEnded">>,
     <<"timeupdate", "ctlProgress">>, <<"loadedmetadata", "ctlDuration">>,
     <<"play", "ctlStartAutoHide">>, <<"pause", "ctlStopAutoHide">> >>

RECURSIVE Subscribe(_, _, _)
Subscribe(subs, i, c) ==
  IF i > Len(subs) THEN c
  ELSE Subscribe(subs, i + 1, on(subs[i][1], subs[i][2], c))

\* The state new HLSPlayer and new VideoControls leave (initialize, down to
\* the load).
Skeleton(opts) ==
  LET c == [listeners |-> HLSPlayerListeners, panels |-> <<>>,
            classes |-> {"vimeo-hls-player"}, hls |-> 0, engines |-> <<>>,
            src |-> "", playShown |-> TRUE, hideTimeout |-> 0,
            timers |-> [i \in {} |-> 0],
            timeCurrent |-> IF opts.controls THEN InitialClock ELSE <<>>,
            timeDuration |-> IF opts.controls THEN InitialClock ELSE <<>>,
            invoked |-> <<>>, calls |-> <<>>, caught |-> <<>>, thrown |-> NULL]
  IN IF opts.controls THEN Subscribe(ControlSubscriptions, 1, c) ELSE c

Init ==
  /\ hlsSupported \in BOOLEAN
  /\ canPlayNative \in BOOLEAN
  /\ apiVariant \in {"object", "string"}
  /\ options \in {o \in OptionSets :
                    /\ o.hlsUrl = NULL \/ o.vimeoId = <<>>
                    /\ o.vimeoId = <<>> => o.vimeoAccessToken = NULL}
  /\ controlsElement = IF options.controls THEN "attached" ELSE "none"
  /\ videoAttached = TRUE
  /\ paused = TRUE
  /\ muted = options.muted
  /\ volume = 2
  /\ currentTime = 0
  /\ duration = NaN
  /\ mutedShown = FALSE
  /\ idle = HideDelay
  /\ docListeners = [mousemove |-> <<>>, mouseup |-> <<>>]
  /\ userOps = 0
  /\ envEvents = 0
  /\ LET sk == Skeleton(options)
         c == IF options.hlsUrl # NULL THEN loadHLS(Str(options.hlsUrl), sk)
              ELSE IF options.vimeoId # <<>> THEN loadVimeoEnter(sk)
              ELSE on("error", "facadeShowError", sk)
     IN /\ listeners = c.listeners
        /\ panels = c.panels
        /\ classes = c.classes
        /\ hls = c.hls
        /\ engines = c.engines
        /\ src = c.src
        /\ playShown = c.playShown
        /\ hideTimeout = c.hideTimeout
        /\ timers = c.timers
        /\ timeCurrent = c.timeCurrent
        /\ timeDuration = c.timeDuration
        /\ initPc = IF options.hlsUrl = NULL /\ options.vimeoId = <<>>
                      THEN "done" ELSE "awaitLoad"
        /\ loads =
             IF options.hlsUrl # NULL
               THEN <<Stepped(NewLoad("hls", Str(options.hlsUrl), <<>>, NULL, TRUE),
                              "done", c, sk)>>
             ELSE IF options.vimeoId # <<>>
               THEN <<loadVimeoStart(NewLoad("vimeo", Undefined, options.vimeoId,
                                             options.vimeoAccessToken, TRUE), c, sk)>>
             ELSE <<>>
        /\ last = Last("new", c, sk)

\* ---------------------------------------------------------------- actions
Platform == <<hlsSupported, canPlayNative, apiVariant, options>>

Media == <<muted, volume, currentTime, duration>>

\* What only the overlay's gestures and the clock change.
Gestures == <<mutedShown, idle, docListeners>>

\* player.loadHLS(url), called by the embedding page.
loadHLSCall(limit, url) ==
  /\ Len(loads) < limit
  /\ LET c == loadHLS(Str(url), Ctx)
     IN /\ Commit(c)
        /\ loads' = Append(loads,
             Stepped(NewLoad("hls", Str(url), <<>>, NULL, FALSE), "done", c, Ctx))
        /\ last' = Last("loadHLS", c, Ctx)
  /\ UNCHANGED <<Platform, Gestures, controlsElement, videoAttached, initPc, paused,
                 Media, userOps, envEvents>>

CallLoadHLS(url) == loadHLSCall(MaxLoads, url)

\* player.loadVimeo(id, token), called by the embedding page, to its first await.
loadVimeoCall(limit, vimeoId, token) ==
  /\ Len(loads) < limit
  /\ LET c == loadVimeoEnter(Ctx)
     IN /\ Commit(c)
        /\ loads' = Append(loads,
             loadVimeoStart(NewLoad("vimeo", Undefined, vimeoId, token, FALSE), c, Ctx))
        /\ last' = Last("loadVimeo", c, Ctx)
  /\ UNCHANGED <<Platform, Gestures, controlsElement, videoAttached, initPc, paused,
                 Media, userOps, envEvents>>

CallLoadVimeo(vimeoId, token) == loadVimeoCall(MaxLoads, vimeoId, token)

\* loadVimeo resumes when getHLSFromPlayer settles.
PlayerResponse(i, outcome) ==
  /\ loads[i].pc = "awaitPlayer"
  /\ LET ld == loads[i]
         r == getHLSFromPlayer(outcome)
         c1 == IF r.ok THEN loadHLS(r.value, Ctx) ELSE Ctx
         loaded == r.ok /\ c1.thrown = NULL
         c2 == [c1 EXCEPT !.thrown = NULL]
         c == IF loaded THEN [c1 EXCEPT !.classes = @ \ {"loading"}]
              ELSE IF tokenSupplied(ld.token) THEN c2
              ELSE loadVimeoCatch(TokenRequired, c2)
         pc == IF ~loaded /\ tokenSupplied(ld.token) THEN "awaitApi" ELSE "done"
         ld1 == [Stepped(ld, pc, c, Ctx) EXCEPT
                   !.playerOutcome = IF r.ok THEN "resolved" ELSE "failed"]
     IN /\ Commit(c)
        /\ loads' = [loads EXCEPT ![i] =
             IF pc = "awaitApi"
               THEN [ld1 EXCEPT !.net = Append(@, [endpoint |-> "api", id |-> ld.videoId])]
               ELSE ld1]
        /\ last' = Last("playerResponse", c, Ctx)
  /\ UNCHANGED <<Platform, Gestures, controlsElement, videoAttached, initPc, paused,
                 Media, userOps, envEvents>>

\* loadVimeo resumes when getVideoData settles.
ApiResponse(i, outcome) ==
  /\ loads[i].pc = "awaitApi"
  /\ LET ld == loads[i]
         r == getVideoData(outcome)
         c1 == IF r.ok /\ ~Falsy(r.value) THEN loadHLS(r.value, Ctx) ELSE Ctx
         c == IF ~r.ok THEN loadVimeoCatch(r.message, c1)
              ELSE IF Falsy(r.value) THEN loadVimeoCatch(NoHlsAvailable, c1)
              ELSE IF c1.thrown # NULL
                THEN loadVimeoCatch(c1.thrown, [c1 EXCEPT !.thrown = NULL])
              ELSE [c1 EXCEPT !.classes = @ \ {"loading"}]
     IN /\ Commit(c)
        /\ loads' = [loads EXCEPT ![i] =
             [Stepped(ld, "done", c, Ctx) EXCEPT !.apiOutcome = outcome]]
        /\ last' = Last("apiResponse", c, Ctx)
  /\ UNCHANGED <<Platform, Gestures, controlsElement, videoAttached, initPc, paused,
                 Media, userOps, envEvents>>

\* initialize resumes after its load and subscribes the facade to `error`.
InitializeResume ==
  /\ initPc = "awaitLoad"
  /\ loads[1].pc = "done"
  /\ ~loads[1].rejected
  /\ LET c == on("error", "facadeShowError", Ctx)
     IN Commit(c) /\ last' = Last("initialize", c, Ctx)
  /\ initPc' = "done"
  /\ UNCHANGED <<Platform, Gestures, controlsElement, videoAttached, paused, Media,
                 loads, userOps, envEvents>>

\* player.on / player.off, called by the embedding page; "seeking" is a name
\* the registry does not know.
UserEvents == {"error", "loadedmetadata", "seeking"}

onCall(limit, event, cb) ==
  /\ userOps < limit
  /\ userOps' = userOps + 1
  /\ LET c == on(event, cb, Ctx)
     IN Commit(c) /\ last' = RegistryStep("on", event, cb, c, Ctx)
  /\ UNCHANGED <<Platform, Gestures, controlsElement, videoAttached, initPc, paused,
                 Media, loads, envEvents>>

UserOn(event, cb) == onCall(MaxUserOps, event, cb)

offCall(limit, event, cb) ==
  /\ userOps < limit
  /\ userOps' = userOps + 1
  /\ LET c == off(event, cb, Ctx)
     IN Commit(c) /\ last' = RegistryStep("off", event, cb, c, Ctx)
  /\ UNCHANGED <<Platform, Gestures, controlsElement, videoAttached, initPc, paused,
                 Media, loads, envEvents>>

UserOff(event, cb) == offCall(MaxUserOps, event, cb)

\* VideoControls.destroy
controlsDestroy(c) == stopAutoHide(c)

\* player.destroy(), called by the embedding page.
Destroy ==
  /\ LET c1 == IF options.controls THEN controlsDestroy(Ctx) ELSE Ctx
         c2 == destroy(c1)
         c == [c2 EXCEPT !.classes = @ \ {"vimeo-hls-player"}]
     IN Commit(c) /\ last' = Last("destroy", c, Ctx)
  /\ controlsElement' = IF options.controls THEN "removed" ELSE controlsElement
  /\ videoAttached' = FALSE
  /\ UNCHANGED <<Platform, Gestures, initPc, paused, Media, loads, userOps, envEvents>>

\* A live engine reports an error to the handler loadSource subscribed.
EngineTypes == {"networkError", "mediaError", "otherError"}

EngineError(e, fatal, type) ==
  /\ envEvents < MaxEngineEvents
  /\ envEvents' = envEvents + 1
  /\ ~engines[e].destroyed
  /\ LET c == EngineErrorHandler([fatal |-> fatal, type |-> type], Ctx)
     IN Commit(c)
        /\ last' = [Last("engineError", c, Ctx) EXCEPT
                      !.op = IF ~fatal THEN "engineError"
                             ELSE IF type = "networkError" THEN "engineFatalNetwork"
                             ELSE IF type = "mediaError" THEN "engineFatalMedia"
                             ELSE "engineFatalOther"]
  /\ UNCHANGED <<Platform, Gestures, controlsElement, videoAttached, initPc, paused,
                 Media, loads, userOps>>

\* The media element fires one of the events attachEventListeners forwards.
mediaEventCall(limit, event) ==
  /\ envEvents < limit
  /\ envEvents' = envEvents + 1
  /\ LET c == emit(event, [kind |-> "media", message |-> NULL], Ctx)
     IN Commit(c) /\ last' = RegistryStep("mediaEvent", event, NULL, c, Ctx)
  /\ paused' = IF event = "play" THEN FALSE
               ELSE IF event = "pause" THEN TRUE ELSE paused
  /\ UNCHANGED <<Platform, Gestures, controlsElement, videoAttached, initPc, Media, loads,
                 userOps>>

MediaEvent(event) == mediaEventCall(MaxEngineEvents, event)

\* ------------------------------------------- the facade's playback methods
Dom == <<controlsElement, videoAttached>>

ApiCall == userOps < MaxUserOps /\ userOps' = userOps + 1

\* HLSPlayer.play: video.play() resolves, or rejects and the error is emitted.
play(resolves, c) ==
  IF resolves THEN c
  ELSE emit("error", [kind |-> "play", message |-> "play() rejected"], c)

Play(resolves) ==
  /\ ApiCall
  /\ LET c == play(resolves, Ctx)
     IN Commit(c) /\ last' = Last("play", c, Ctx)
  /\ paused' = IF resolves THEN FALSE ELSE paused
  /\ UNCHANGED <<Platform, Gestures, Dom, initPc, Media, loads, envEvents>>

Pause ==
  /\ ApiCall
  /\ paused' = TRUE
  /\ Commit(Ctx) /\ last' = Last("pause", Ctx, Ctx)
  /\ UNCHANGED <<Platform, Gestures, Dom, initPc, Media, loads, envEvents>>

TogglePlay(resolves) ==
  /\ ApiCall
  /\ LET c == IF paused THEN play(resolves, Ctx) ELSE Ctx
     IN Commit(c) /\ last' = Last("togglePlay", c, Ctx)
  /\ paused' = IF paused THEN ~resolves ELSE TRUE
  /\ UNCHANGED <<Platform, Gestures, Dom, initPc, Media, loads, envEvents>>

Seek(time) ==
  /\ ApiCall
  /\ currentTime' = time
  /\ Commit(Ctx) /\ last' = Last("seek", Ctx, Ctx)
  /\ UNCHANGED <<Platform, Gestures, Dom, initPc, paused, muted, volume, duration,
                 loads, envEvents>>

Max(a, b) == IF a >= b THEN a ELSE b
Min(a, b) == IF a <= b THEN a ELSE b

\* setVolume that stores its argument as it is.
setVolumeUnclamped(v) == v

\* HLSPlayer.setVolume: Math.max(0, Math.min(1, volume)), in halves.
setVolume(v) == Max(0, Min(2, v))

setVolumeCall(limit, v) ==
  /\ userOps < limit
  /\ userOps' = userOps + 1
  /\ volume' = setVolume(v)
  /\ Commit(Ctx) /\ last' = [Last("setVolume", Ctx, Ctx) EXCEPT !.arg = v]
  /\ UNCHANGED <<Platform, Gestures, Dom, initPc, paused, muted, currentTime,
                 duration, loads, envEvents>>

SetVolume(v) == setVolumeCall(MaxUserOps, v)

toggleMuteCall(limit) ==
  /\ userOps < limit
  /\ userOps' = userOps + 1
  /\ muted' = ~muted
  /\ Commit(Ctx) /\ last' = Last("toggleMute", Ctx, Ctx)
  /\ UNCHANGED <<Platform, Gestures, Dom, initPc, paused, volume, currentTime,
                 duration, loads, envEvents>>

ToggleMute == toggleMuteCall(MaxUserOps)

\* getVolume, getCurrentTime, getDuration: reads of the media element.
Getter(name) ==
  /\ ApiCall
  /\ Commit(Ctx) /\ last' = Last(name, Ctx, Ctx)
  /\ UNCHANGED <<Platform, Gestures, Dom, initPc, paused, Media, loads, envEvents>>

Getters == {"getVolume", "getCurrentTime", "getDuration"}
VolumeInputs == {-2, 1, 4}
SeekInputs == {0, 5}

\* The load paths: the loads, initialize, and the page's `error` listeners.
LoadSteps ==
  \/ \E url \in DirectUrls \cup {""} : CallLoadHLS(url)
  \/ \E id \in VimeoInputs, token \in Tokens : CallLoadVimeo(id, token)
  \/ \E i \in 1..Len(loads), o \in PlayerOutcomes : PlayerResponse(i, o)
  \/ \E i \in 1..Len(loads), o \in ApiOutcomes : ApiResponse(i, o)
  \/ InitializeResume

Next ==
  \/ LoadSteps
  \/ \E cb \in UserCallbacks : UserOn("error", cb)

\* Construction with the default muted option, which plays no part in loading.
InitUnmuted == Init /\ ~options.muted

Spec == InitUnmuted /\ [][Next]_vars

\* The lifecycle: loads, subscriptions, engine and media events, destroy.
NextLife ==
  \/ LoadSteps
  \/ \E event \in UserEvents, cb \in UserCallbacks : UserOn(event, cb)
  \/ \E event \in UserEvents, cb \in UserCallbacks : UserOff(event, cb)
  \/ Destroy
  \/ \E e \in 1..Len(engines), fatal \in BOOLEAN, type \in EngineTypes :
        EngineError(e, fatal, type)
  \/ \E event \in Events : MediaEvent(event)

SpecLife == InitUnmuted /\ [][NextLife]_vars

\* The public methods of the facade, before and after destroy.
InitApi ==
  /\ InitUnmuted
  /\ apiVariant = "string"
  /\ options.vimeoId # <<"x">>

NextApi ==
  \/ LoadSteps
  \/ \E event \in {"error", "seeking"}, cb \in UserCallbacks : UserOn(event, cb)
  \/ \E event \in {"error", "seeking"}, cb \in UserCallbacks : UserOff(event, cb)
  \/ Destroy
  \/ \E event \in Events : MediaEvent(event)
  \/ \E resolves \in BOOLEAN : Play(resolves)
  \/ Pause
  \/ \E resolves \in BOOLEAN : TogglePlay(resolves)
  \/ \E time \in SeekInputs : Seek(time)
  \/ \E v \in VolumeInputs : SetVolume(v)
  \/ ToggleMute
  \/ \E name \in Getters : Getter(name)

SpecApi == InitApi /\ [][NextApi]_vars

\* ------------------------------------------------ the overlay's gestures
\* updateVolumeButton: whether the muted icon is the one displayed.
updateVolumeButton(isMuted, vol) == isMuted \/ vol = 0

\* A click on the volume slider; pos is the pointer's distance from the top
\* of the slider, in halves of its height.
SliderPositions == {-1, 0, 1, 2, 3}

handleVolumeClick(pos) ==
  /\ controlsElement = "attached"
  /\ LET percent == 2 - pos
     IN /\ volume' = setVolume(percent)
        /\ muted' = FALSE
        /\ mutedShown' = updateVolumeButton(muted', volume')
        /\ last' = [Last("volumeClick", Ctx, Ctx) EXCEPT !.arg = percent]
  /\ Commit(Ctx)
  /\ UNCHANGED <<Platform, Dom, initPc, paused, currentTime, duration, idle,
                 docListeners, loads, userOps, envEvents>>

\* A click on the volume button.
VolumeButtonClick ==
  /\ controlsElement = "attached"
  /\ muted' = ~muted
  /\ mutedShown' = updateVolumeButton(muted', volume)
  /\ Commit(Ctx) /\ last' = Last("volumeButton", Ctx, Ctx)
  /\ UNCHANGED <<Platform, Dom, initPc, paused, volume, currentTime, duration,
                 idle, docListeners, loads, userOps, envEvents>>

\* Whether a step took the visible marker off the container.
Hid(c) == IF Visible \in classes /\ Visible \notin c.classes THEN 1 ELSE 0

\* The pointer moves inside the container.
MouseMove ==
  /\ options.controls
  /\ LET c == showControls(Ctx)
     IN Commit(c) /\ last' = Last("mousemove", c, Ctx)
  /\ idle' = 0
  /\ UNCHANGED <<Platform, Dom, initPc, paused, Media, mutedShown, docListeners,
                 loads, userOps, envEvents>>

\* The pointer leaves the container.
MouseLeave ==
  /\ options.controls
  /\ LET c == hideControls(Ctx)
     IN Commit(c) /\ last' = [Last("mouseleave", c, Ctx) EXCEPT !.arg = Hid(c)]
  /\ UNCHANGED <<Platform, Gestures, Dom, initPc, paused, Media, loads, userOps,
                 envEvents>>

\* One second passes; a timer that is due runs before the next second does.
Tick ==
  /\ \A id \in DOMAIN timers : timers[id] > 0
  /\ DOMAIN timers # {} \/ idle < HideDelay
  /\ LET c == [Ctx EXCEPT !.timers = [id \in DOMAIN @ |-> @[id] - 1]]
     IN Commit(c) /\ last' = Last("tick", c, Ctx)
  /\ idle' = Min(idle + 1, HideDelay)
  /\ UNCHANGED <<Platform, Dom, initPc, paused, Media, mutedShown, docListeners,
                 loads, userOps, envEvents>>

\* A timer of startAutoHide expires and runs its callback, hideControls.
TimerFire(id) ==
  /\ timers[id] = 0
  /\ LET c == hideControls([Ctx EXCEPT !.timers = clearTimeout(id, @)])
     IN Commit(c) /\ last' = [Last("timerFire", c, Ctx) EXCEPT !.arg = Hid(c)]
  /\ UNCHANGED <<Platform, Gestures, Dom, initPc, paused, Media, loads, userOps,
                 envEvents>>

\* The auto-hide: pointer, clock, play and pause (as events and as calls).
InitOverlay ==
  /\ Init
  /\ options.hlsUrl = NULL /\ options.vimeoId = <<>>
  /\ options.controls /\ ~options.muted
  /\ hlsSupported /\ canPlayNative /\ apiVariant = "string"

NextOverlay ==
  \/ MouseMove
  \/ MouseLeave
  \/ Tick
  \/ \E id \in DOMAIN timers : TimerFire(id)
  \/ \E event \in {"play", "pause"} : MediaEvent(event)
  \/ \E resolves \in BOOLEAN : Play(resolves)
  \/ Pause
  \/ Destroy

SpecOverlay == InitOverlay /\ [][NextOverlay]_vars

\* ------------------------------------------------ the scrubber's drag
removeEventListener(installed, id) == SelectSeq(installed, LAMBDA k : k # id)

\* onMouseUp that takes only itself off the document.
onMouseUpKeepsMove(id, dl) ==
  [dl EXCEPT !.mouseup = removeEventListener(@, id)]

\* The onMouseUp closure of one drag: it removes its own pair.
onMouseUp(id, dl) ==
  [mousemove |-> removeEventListener(dl.mousemove, id),
   mouseup |-> removeEventListener(dl.mouseup, id)]

\* document dispatches mouseup to the listeners it held when the event began.
RECURSIVE DispatchMouseUp(_, _, _)
DispatchMouseUp(ids, i, dl) ==
  IF i > Len(ids) THEN dl
  ELSE DispatchMouseUp(ids, i + 1, onMouseUp(ids[i], dl))

\* mousedown on the progress bar: handleProgressDragStart makes two closures
\* and installs them on document.
handleProgressDragStart ==
  /\ controlsElement = "attached"
  /\ Len(docListeners.mouseup) < MaxDrags
  /\ LET used == {docListeners.mousemove[k] : k \in DOMAIN docListeners.mousemove}
                    \cup {docListeners.mouseup[k] : k \in DOMAIN docListeners.mouseup}
         id == CHOOSE n \in 1..(Cardinality(used) + 1) :
                 n \notin used /\ \A k \in 1..(n - 1) : k \in used
     IN /\ docListeners' = [mousemove |-> Append(docListeners.mousemove, id),
                            mouseup |-> Append(docListeners.mouseup, id)]
        /\ last' = [Last("dragStart", Ctx, Ctx) EXCEPT !.arg = id]
  /\ Commit(Ctx)
  /\ UNCHANGED <<Platform, Dom, initPc, paused, Media, mutedShown, idle, loads,
                 userOps, envEvents>>

\* The pointer moves anywhere in the document: every installed onMouseMove
\* runs handleProgressClick, which seeks to the time under the pointer.
DocMouseMove(time) ==
  /\ LET seeks == Len(docListeners.mousemove)
     IN /\ currentTime' = IF seeks > 0 THEN time ELSE currentTime
        /\ last' = [Last("docMouseMove", Ctx, Ctx) EXCEPT !.arg = time, !.seeks = seeks]
  /\ Commit(Ctx)
  /\ UNCHANGED <<Platform, Gestures, Dom, initPc, paused, muted, volume, duration,
                 loads, userOps, envEvents>>

\* The pointer is released anywhere in the document.
DocMouseUp ==
  /\ docListeners' = DispatchMouseUp(docListeners.mouseup, 1, docListeners)
  /\ Commit(Ctx) /\ last' = Last("docMouseUp", Ctx, Ctx)
  /\ UNCHANGED <<Platform, Dom, initPc, paused, Media, mutedShown, idle, loads,
                 userOps, envEvents>>

\* A click on the progress bar.
handleProgressClick(time) ==
  /\ controlsElement = "attached"
  /\ currentTime' = time
  /\ Commit(Ctx) /\ last' = [Last("progressClick", Ctx, Ctx) EXCEPT !.arg = time, !.seeks = 1]
  /\ UNCHANGED <<Platform, Gestures, Dom, initPc, paused, muted, volume, duration,
                 loads, userOps, envEvents>>

\* The scrubber: drags, clicks, the page's seek calls, and playback going on.
NextDrag ==
  \/ handleProgressDragStart
  \/ \E time \in SeekInputs : DocMouseMove(time)
  \/ DocMouseUp
  \/ \E time \in SeekInputs : handleProgressClick(time)
  \/ \E time \in SeekInputs : Seek(time)
  \/ \E event \in {"play", "timeupdate"} : MediaEvent(event)
  \/ Destroy

SpecDrag == InitOverlay /\ [][NextDrag]_vars

\* ------------------------------------------------ the overlay's clocks
\* The times the media element reports, in half seconds: whole and fractional,
\* below and above an hour, with one and two digits in every field.
HourInputs == (0..MaxHours) \cup {10 * MaxHours, 100 * MaxHours}
FieldInputs == {<<0, 0>>, <<0, 9>>, <<0, 59>>, <<9, 0>>, <<9, 9>>, <<59, 59>>}

TimeInputs ==
  {((h * 3600) + (p[1] * 60) + p[2]) * UnitsPerSecond + f :
     h \in HourInputs, p \in FieldInputs, f \in 0..(UnitsPerSecond - 1)}

\* The durations: none yet, one below an hour and one above.
DurationInputs ==
  {NaN, ((9 * 60) + 9) * UnitsPerSecond, (3600 + 9) * UnitsPerSecond + 1}

\* Playback (or a seek) takes the media element to another time.
Playback(time) ==
  /\ currentTime' = time
  /\ Commit(Ctx) /\ last' = Last("playback", Ctx, Ctx)
  /\ UNCHANGED <<Platform, Gestures, Dom, initPc, paused, muted, volume, duration,
                 loads, userOps, envEvents>>

\* The media element learns (or loses) the duration of its source.
DurationChange(d) ==
  /\ duration' = d
  /\ Commit(Ctx) /\ last' = Last("durationchange", Ctx, Ctx)
  /\ UNCHANGED <<Platform, Gestures, Dom, initPc, paused, muted, volume,
                 currentTime, loads, userOps, envEvents>>

\* The clocks: the media element's times and the events that render them.
NextFormat ==
  \/ \E time \in TimeInputs : Playback(time)
  \/ \E d \in DurationInputs : DurationChange(d)
  \/ \E event \in {"timeupdate", "loadedmetadata"} : MediaEvent(event)

SpecFormat == InitOverlay /\ [][NextFormat]_vars

\* The volume: the page's calls and the overlay's two volume controls.
InitVolume ==
  /\ Init
  /\ options.hlsUrl = NULL /\ options.vimeoId = <<>>
  /\ hlsSupported /\ canPlayNative /\ apiVariant = "string"

NextVolume ==
  \/ \E v \in VolumeInputs : setVolumeCall(MaxPageCalls, v)
  \/ toggleMuteCall(MaxPageCalls)
  \/ \E pos \in SliderPositions : handleVolumeClick(pos)
  \/ VolumeButtonClick
  \/ Destroy

SpecVolume == InitVolume /\ [][NextVolume]_vars

\* The engines: one load more than elsewhere, so that a second loadSource can
\* replace the engine of the first, then engine errors and destroy.
InitEngine ==
  /\ Init
  /\ options.vimeoId = <<>> /\ ~options.muted /\ ~options.controls
  /\ apiVariant = "string"

NextEngine ==
  \/ \E url \in DirectUrls \cup {""} : loadHLSCall(MaxLoads + 1, url)
  \/ InitializeResume
  \/ \E cb \in UserCallbacks : UserOn("error", cb)
  \/ \E e \in 1..Len(engines), fatal \in BOOLEAN, type \in EngineTypes :
        EngineError(e, fatal, type)
  \/ Destroy

SpecEngine == InitEngine /\ [][NextEngine]_vars

\* The registry on its own: a page that subscribes and unsubscribes several
\* callbacks, among them one that throws, and the media events.
InitRegistry ==
  /\ Init
  /\ options.hlsUrl = NULL /\ options.vimeoId = <<>> /\ ~options.muted
  /\ hlsSupported /\ canPlayNative /\ apiVariant = "string"

RegistryEvents == {"play", "error"}
RegistryCallbacks == UserCallbacks \cup {"userB"}

NextRegistry ==
  \/ \E event \in RegistryEvents, cb \in RegistryCallbacks :
        onCall(MaxPageCalls, event, cb)
  \/ \E event \in RegistryEvents, cb \in RegistryCallbacks :
        offCall(MaxPageCalls, event, cb)
  \/ \E event \in Events : MediaEvent(event)
  \/ Destroy

SpecRegistry == InitRegistry /\ [][NextRegistry]_vars

\* Overlapping loads: one load more than elsewhere, called on a player built
\* without a source, so that a load can begin, and destroy can run, while a
\* resolution is in flight. The page starts no load on a destroyed player.
OverlapInputs == {<<"vimeo.com/", "1">>}

InitOverlap ==
  /\ Init
  /\ options.hlsUrl = NULL /\ options.vimeoId = <<>>
  /\ ~options.muted /\ ~options.controls

NextOverlap ==
  \/ \E url \in DirectUrls : videoAttached /\ loadHLSCall(MaxLoads + 1, url)
  \/ \E id \in OverlapInputs, token \in Tokens :
        videoAttached /\ loadVimeoCall(MaxLoads + 1, id, token)
  \/ \E i \in 1..Len(loads), o \in PlayerOutcomes : PlayerResponse(i, o)
  \/ \E i \in 1..Len(loads), o \in ApiOutcomes : ApiResponse(i, o)
  \/ Destroy

SpecOverlap == InitOverlap /\ [][NextOverlap]_vars

\* Deliveries: a page whose callbacks throw, unsubscribe and subscribe while
\* an emission is delivering, and one emission more than elsewhere, so that
\* an emission follows one that was cut short.
EmitCallbacks == RegistryCallbacks \cup ReentrantCallbacks

NextEmit ==
  \/ \E cb \in EmitCallbacks : onCall(MaxPageCalls, "play", cb)
  \/ \E cb \in EmitCallbacks : offCall(MaxPageCalls, "play", cb)
  \/ \E event \in {"play", "pause"} : mediaEventCall(MaxEngineEvents + 1, event)

SpecEmit == InitRegistry /\ [][NextEmit]_vars

\* ------------------------------------------------ the resolver's parser
UrlSymbols == {"vimeo.com/", "video/", "player.", "x"} \cup Digits

RECURSIVE Strings(_)
Strings(n) ==
  IF n = 0 THEN {<<>>}
  ELSE LET shorter == Strings(n - 1)
       IN shorter \cup {Append(s, ch) : s \in shorter, ch \in UrlSymbols}

UrlInputs == Strings(MaxUrlLen)

\* VimeoAPI.extractVideoId(url), as loadVimeo calls it. The parser reads
\* nothing but its argument, so one call per behaviour covers every input.
ExtractVideoId(url) ==
  /\ last.op = "new"
  /\ Commit(Ctx)
  /\ last' = [Last("extractVideoId", Ctx, Ctx) EXCEPT
               !.url = url, !.id = extractVideoId(url)]
  /\ UNCHANGED <<Platform, Gestures, Dom, initPc, paused, Media, loads, userOps,
                 envEvents>>

NextExtract == \E url \in UrlInputs : ExtractVideoId(url)

SpecExtract == InitOverlay /\ [][NextExtract]_vars

\* ------------------------------------------------------------------ claims
\* The callbacks the last step invoked for `error`, in order.
LastErrorInvoked ==
  LET picked == SelectSeq(last.invoked, LAMBDA r : r.event = "error")
  IN [i \in 1..Len(picked) |-> picked[i].cb]

LoadIds == DOMAIN loads

\* C1: when the engine reports a fatal error that is neither network nor
\* media, the adapter destroys the engine and every listener registered for
\* `error` at that time is invoked with the error.
C1_FatalOtherForwarded ==
  last.op = "engineFatalOther" =>
    /\ hls = 0
    /\ last.hlsBefore # 0 => engines[last.hlsBefore].destroyed
    /\ LastErrorInvoked = last.errorBefore

\* C2: a player constructed with hlsUrl where neither the engine nor the
\* media element supports HLS assigns no source and, once initialize has
\* run, shows an error panel in the container.
C2_UnsupportedSurfaced ==
  (options.hlsUrl # NULL /\ ~hlsSupported /\ ~canPlayNative /\ initPc = "done") =>
    /\ loads[1].calls = <<Str(options.hlsUrl)>>
    /\ engines = <<>>
    /\ src = ""
    /\ panels # <<>>

\* A finished loadVimeo whose unauthenticated step failed and whose
\* authenticated step, made with the token, returned an HLS URL.
AuthenticatedSuccess(ld) ==
  /\ ld.kind = "vimeo" /\ ld.pc = "done"
  /\ ld.playerOutcome = "failed"
  /\ ld.token # NULL
  /\ ld.apiOutcome = "hls"

\* C3 as stated: such a load calls loadSource exactly once, with the URL of
\* the authenticated path, and renders no error panel.
C3_Original ==
  \A i \in LoadIds :
    AuthenticatedSuccess(loads[i]) =>
      /\ loads[i].calls = <<Str("urlApi")>>
      /\ loads[i].panels = <<>>

\* C3 amended: such a load calls loadSource exactly once, with the URL of
\* the authenticated path, and renders no resolution-failure panel; where
\* the engine or the media element supports HLS it renders no panel at all.
C3_AuthenticatedFallback ==
  \A i \in LoadIds :
    AuthenticatedSuccess(loads[i]) =>
      /\ loads[i].calls = <<Str("urlApi")>>
      /\ \A k \in 1..Len(loads[i].panels) :
            loads[i].panels[k].title # "Failed to load Vimeo video"
      /\ (hlsSupported \/ canPlayNative) => loads[i].panels = <<>>

C3_Witness ==
  \E i \in LoadIds :
    /\ AuthenticatedSuccess(loads[i])
    /\ loads[i].calls = <<Str("urlApi")>>
    /\ hlsSupported

\* C4: when the unauthenticated step fails and no token was supplied,
\* loadVimeo never calls loadSource, never calls the authenticated endpoint,
\* and renders a panel with the token-required message.
C4_AuthRequired ==
  \A i \in LoadIds :
    (loads[i].kind = "vimeo" /\ loads[i].playerOutcome = "failed"
       /\ loads[i].token = NULL) =>
      /\ loads[i].calls = <<>>
      /\ \A k \in 1..Len(loads[i].net) : loads[i].net[k].endpoint # "api"
      /\ loads[i].pc = "done"
      /\ loads[i].panels =
           <<[title |-> "Failed to load Vimeo video", message |-> TokenRequired]>>
      /\ \E k \in 1..Len(panels) : panels[k].message = TokenRequired

C4_Witness ==
  \E i \in LoadIds :
    /\ loads[i].kind = "vimeo" /\ loads[i].playerOutcome = "failed"
    /\ loads[i].token = NULL /\ loads[i].pc = "done"

\* C5: when the unauthenticated step yields a source, loadVimeo calls
\* loadSource exactly once with that source's HLS URL string and never calls
\* the authenticated endpoint, with or without a token.
C5_ShortCircuit ==
  \A i \in LoadIds :
    (loads[i].kind = "vimeo" /\ loads[i].playerOutcome = "resolved") =>
      /\ loads[i].calls = <<Str("urlPlayer")>>
      /\ \A k \in 1..Len(loads[i].net) : loads[i].net[k].endpoint # "api"

\* An input of loadVimeo that is neither all digits nor one of the shapes
\* vimeo.com/{id}, vimeo.com/video/{id}, player.vimeo.com/video/{id}.
KnownShape(s) ==
  \E p \in 1..Len(patterns) :
    /\ Len(s) > Len(patterns[p])
    /\ SubSeq(s, 1, Len(patterns[p])) = patterns[p]
    /\ AllDigits(SubSeq(s, Len(patterns[p]) + 1, Len(s)))

InvalidIdentifier(s) == ~AllDigits(s) /\ ~KnownShape(s)

FailurePanels(ld) ==
  LET picked == SelectSeq(ld.panels, LAMBDA pn :
                  pn.title \in {"Failed to load HLS stream", "Failed to load Vimeo video"})
  IN [k \in 1..Len(picked) |-> picked[k].message]

C8_FailureEmitsError ==
  \A i \in LoadIds :
    loads[i].caught # <<>> =>
      \A k \in 1..Len(loads[i].errorAtFail) :
        loads[i].errorAtFail[k] \in UserCallbacks =>
          \E n \in 1..Len(loads[i].notified) :
            loads[i].notified[n] = loads[i].errorAtFail[k]

\* The registry holds no callback for any event.
RegistryEmpty ==
  \A e \in Events : e \in DOMAIN listeners => listeners[e] = <<>>

\* C9: right after the player's destroy() the controls are out of the
\* container, the adapter's engine is destroyed and its reference released,
\* the media source is cleared and the registry holds no callback.
C9_DestroyedState ==
  last.op = "destroy" =>
    /\ controlsElement # "attached"
    /\ last.hlsBefore # 0 => engines[last.hlsBefore].destroyed
    /\ hls = 0
    /\ src = ""
    /\ RegistryEmpty

C9_Witness ==
  /\ last.op = "destroy"
  /\ last.hlsBefore # 0
  /\ last.errorBefore # <<>>
  /\ controlsElement = "removed"

PublicMethods ==
  {"play", "pause", "togglePlay", "seek", "setVolume", "getVolume", "toggleMute",
   "getCurrentTime", "getDuration", "on", "off", "destroy"}

\* C10: destroy() never raises, with or without a load before it and however
\* often it is called, and leaves the destroyed state; after it every public
\* method returns without raising, on() registers nothing, and a media event
\* reaches no listener.
C10_SafeAfterDestroy ==
  /\ last.op = "destroy" =>
        last.thrown = NULL /\ hls = 0 /\ src = "" /\ listeners = EmptyRegistry
  /\ (~videoAttached /\ last.op \in PublicMethods \cup {"mediaEvent"}) =>
        /\ last.thrown = NULL
        /\ last.invoked = <<>>
        /\ listeners = EmptyRegistry

C10_Witness ==
  /\ ~videoAttached
  /\ last.op = "on"
  /\ last.errorBefore = <<>>
  /\ loads = <<>>

\* The callbacks the last step invoked, in order.
LastInvoked == [i \in 1..Len(last.invoked) |-> last.invoked[i].cb]

\* A sequence without every occurrence of one element, the others in place.
RECURSIVE Without(_, _)
Without(seq, x) ==
  IF seq = <<>> THEN <<>>
  ELSE IF Head(seq) = x THEN Without(Tail(seq), x)
  ELSE <<Head(seq)>> \o Without(Tail(seq), x)

Throwing == {"userThrow"}

\* The callbacks of a sequence up to and including the first that throws.
UpToFirstThrow(seq) ==
  LET at == {i \in 1..Len(seq) : seq[i] \in Throwing}
  IN IF at = {} THEN seq
     ELSE SubSeq(seq, 1, CHOOSE i \in at : \A j \in at : i <= j)

\* on() appends to the array of a known event and off() removes the callback
\* and keeps the order of the others.
RegistryKeepsOrder ==
  /\ (last.op = "on" /\ last.event \in DOMAIN listeners) =>
        listeners[last.event] = Append(last.arrayBefore, last.callback)
  /\ (last.op = "off" /\ last.event \in DOMAIN listeners) =>
        listeners[last.event] = Without(last.arrayBefore, last.callback)

\* C11 as stated: after any on/off calls, one emission of a media event
\* invokes every callback registered for it, once per registration, in the
\* order of subscription; off() removes the callback and keeps the order of
\* the others.
C11_Original ==
  /\ RegistryKeepsOrder
  /\ last.op = "mediaEvent" =>
        /\ LastInvoked = last.arrayBefore
        /\ \A i \in 1..Len(last.invoked) : last.invoked[i].event = last.event

\* C11 amended: one emission invokes the callbacks registered for the event
\* in the order of subscription, once per registration, up to and including
\* the first callback that throws (all of them when none throws); off()
\* removes the callback and keeps the order of the others.
C11_SubscriptionOrder ==
  /\ RegistryKeepsOrder
  /\ last.op = "mediaEvent" =>
        /\ LastInvoked = UpToFirstThrow(last.arrayBefore)
        /\ \A i \in 1..Len(last.invoked) : last.invoked[i].event = last.event

C11_Witness ==
  /\ last.op = "mediaEvent"
  /\ Len(LastInvoked) >= 3
  /\ LastInvoked # last.arrayBefore
  /\ userOps = MaxPageCalls

\* A volume clamped to [0,1], in halves.
Clamped(v) == IF v < 0 THEN 0 ELSE IF v > 2 THEN 2 ELSE v

\* C12: the media volume is always within [0,1]; after setVolume(v), and
\* after a click on the volume slider at any pointer position, the stored
\* volume is the requested one clamped to [0,1], and after a slider click the
\* media is not muted.
C12_VolumeClamped ==
  /\ volume \in 0..2
  /\ last.op = "setVolume" => volume = Clamped(last.arg)
  /\ last.op = "volumeClick" => volume = Clamped(last.arg) /\ ~muted

C12_Witness ==
  /\ last.op = "volumeClick"
  /\ last.arg > 2
  /\ volume = 2
  /\ options.muted
  /\ userOps > 0

\* C18: whenever no dispatch is in progress, from construction on, the
\* overlay shows the muted icon if and only if the media element is muted or
\* its volume is 0.
C18_OverlayMatchesMedia ==
  controlsElement = "attached" => (mutedShown <=> (muted \/ volume = 0))

\* C13: no step takes the visible marker off the container while the media
\* element is paused, whatever pointer movements, pointer-leave events, timer
\* expiries and play/pause events happen.
C13_NoHideWhilePaused ==
  [][(Visible \in classes /\ Visible \notin classes') => (~paused /\ ~paused')]_vars

C13_Witness ==
  /\ last.op = "timerFire"
  /\ paused
  /\ Visible \in classes
  /\ envEvents > 0

\* C14: a pointer movement shows the controls and leaves exactly one pending
\* timer, a fresh one of 3 seconds; at most one timer is ever pending; the
\* pending timer never expires sooner than 3 seconds after the last movement;
\* and a timer that expires while the media is playing hides the controls.
C14_SingleFreshTimer ==
  /\ Cardinality(DOMAIN timers) <= 1
  /\ last.op = "mousemove" =>
        /\ Visible \in classes
        /\ DOMAIN timers = {hideTimeout}
        /\ timers[hideTimeout] = HideDelay
  /\ \A id \in DOMAIN timers : timers[id] >= HideDelay - idle
  /\ last.op = "timerFire" =>
        /\ idle >= HideDelay
        /\ ~paused => Visible \notin classes

C14_Witness ==
  /\ last.op = "timerFire"
  /\ last.arg = 1
  /\ ~paused
  /\ envEvents > 0

\* The closures document holds for an event.
Installed(event) == {docListeners[event][k] : k \in DOMAIN docListeners[event]}

RECURSIVE Total(_, _)
Total(engs, field) ==
  IF engs = <<>> THEN 0
  ELSE engs[Len(engs)][field] + Total(SubSeq(engs, 1, Len(engs) - 1), field)

Destroyed(engs) == {e \in DOMAIN engs : engs[e].destroyed}

\* The step handled a fatal engine error of the given class, or a non-fatal one.
Handled(op) == last'.op = op

\* C16: a fatal network error makes exactly one startLoad call and a fatal
\* media error exactly one recoverMediaError call; in both cases the engine
\* is kept, the registry is unchanged and the error is emitted to the `error`
\* listeners; a non-fatal error makes no restart, recovery or teardown.
C16_FatalRecovery ==
  [][/\ Handled("engineFatalNetwork") =>
          /\ Total(engines', "startLoad") = Total(engines, "startLoad") + 1
          /\ Total(engines', "recoverMediaError") = Total(engines, "recoverMediaError")
     /\ Handled("engineFatalMedia") =>
          /\ Total(engines', "recoverMediaError") = Total(engines, "recoverMediaError") + 1
          /\ Total(engines', "startLoad") = Total(engines, "startLoad")
     /\ (Handled("engineFatalNetwork") \/ Handled("engineFatalMedia")) =>
          /\ hls' = hls /\ Destroyed(engines') = Destroyed(engines)
          /\ listeners' = listeners
          /\ [i \in 1..Len(last'.invoked) |-> last'.invoked[i].cb]
               = UpToFirstThrow(last'.errorBefore)
     /\ Handled("engineError") =>
          /\ Total(engines', "startLoad") = Total(engines, "startLoad")
          /\ Total(engines', "recoverMediaError") = Total(engines, "recoverMediaError")
          /\ hls' = hls /\ Destroyed(engines') = Destroyed(engines)
          /\ src' = src /\ listeners' = listeners]_vars

\* C19: a loadSource call with a non-empty URL takes exactly one path: a new
\* engine bound to the URL whenever the engine library is supported (native
\* support or not), else the URL as the media element's source when that is
\* supported, else nothing; and an engine error never gives the media element
\* a source.
C19_OnePath ==
  /\ [][\A u \in DirectUrls :
          last'.calls = <<Str(u)>> =>
            IF hlsSupported
              THEN /\ Len(engines') = Len(engines) + 1
                   /\ hls' = Len(engines')
                   /\ engines'[hls'] = NewEngine(Str(u))
                   /\ src' = src
            ELSE IF canPlayNative
              THEN src' = u /\ engines' = engines /\ hls' = hls
            ELSE src' = src /\ engines' = engines /\ hls' = hls]_vars
  /\ [][last'.op \in {"engineError", "engineFatalNetwork", "engineFatalMedia",
                      "engineFatalOther"} =>
          /\ src' \in {src, ""}
          /\ Len(engines') = Len(engines)]_vars
  /\ [](hlsSupported => src = "")

C19_Witness ==
  /\ hlsSupported /\ canPlayNative
  /\ last.op = "engineFatalOther"
  /\ Len(engines) = MaxLoads + 1
  /\ src = ""

\* A load that handed loadSource a source the platform can play, and one
\* that ended in a failure: a caught error, or a source the platform cannot
\* play.
LoadStarted(ld) ==
  /\ ld.caught = <<>>
  /\ \E k \in 1..Len(ld.calls) : ~Falsy(ld.calls[k])
  /\ hlsSupported \/ canPlayNative

LoadFailed(ld) ==
  \/ ld.caught # <<>>
  \/ /\ \E k \in 1..Len(ld.calls) : ~Falsy(ld.calls[k])
     /\ ~hlsSupported /\ ~canPlayNative

\* C17: the loading marker is on the container while a load is in progress,
\* stays until loadedmetadata is emitted for the source it loaded (no media
\* event is delivered in this specification), and is off once the load has
\* failed.
C17_LoadingSpansLoad ==
  \A i \in LoadIds :
    /\ loads[i].pc # "done" => "loading" \in classes
    /\ (loads[i].pc = "done" /\ LoadStarted(loads[i])) => "loading" \in classes
    /\ (loads[i].pc = "done" /\ LoadFailed(loads[i])) => "loading" \notin classes

\* The number a sequence of digit characters writes.
DigitValue(ch) == CHOOSE d \in 0..9 : DigitChars[d + 1] = ch

RECURSIVE Value(_)
Value(digits) ==
  IF digits = <<>> THEN 0
  ELSE 10 * Value(SubSeq(digits, 1, Len(digits) - 1)) + DigitValue(digits[Len(digits)])

IsDigits(seq) ==
  /\ seq # <<>>
  /\ \A i \in 1..Len(seq) : \E d \in 1..Len(DigitChars) : seq[i] = DigitChars[d]

\* A number written without padding.
Unpadded(seq) == IsDigits(seq) /\ (Len(seq) = 1 \/ seq[1] # "0")

\* A number written in exactly two digits.
TwoDigits(seq) == IsDigits(seq) /\ Len(seq) = 2

Colons(text) == {i \in 1..Len(text) : text[i] = ":"}

\* text is M:SS for a time below an hour and H:MM:SS from an hour on, for the
\* time t (in half seconds) floored to whole seconds; "0:00" for NaN.
IsClock(text, t) ==
  IF t = NaN THEN text = <<"0", ":", "0", "0">>
  ELSE
    LET whole == t \div UnitsPerSecond
    IN IF whole < 3600
         THEN \E i \in 1..Len(text) :
                /\ Colons(text) = {i}
                /\ Unpadded(SubSeq(text, 1, i - 1))
                /\ TwoDigits(SubSeq(text, i + 1, Len(text)))
                /\ Value(SubSeq(text, 1, i - 1)) * 60
                     + Value(SubSeq(text, i + 1, Len(text))) = whole
                /\ Value(SubSeq(text, i + 1, Len(text))) < 60
         ELSE \E i, j \in 1..Len(text) :
                /\ i < j
                /\ Colons(text) = {i, j}
                /\ Unpadded(SubSeq(text, 1, i - 1))
                /\ TwoDigits(SubSeq(text, i + 1, j - 1))
                /\ TwoDigits(SubSeq(text, j + 1, Len(text)))
                /\ Value(SubSeq(text, 1, i - 1)) * 3600
                     + Value(SubSeq(text, i + 1, j - 1)) * 60
                     + Value(SubSeq(text, j + 1, Len(text))) = whole
                /\ Value(SubSeq(text, i + 1, j - 1)) < 60
                /\ Value(SubSeq(text, j + 1, Len(text))) < 60

\* C20: the clock the overlay renders with formatTime is M:SS (minutes
\* unpadded, seconds floored and in two digits) for every time below 3600
\* seconds, H:MM:SS (minutes and seconds in two digits) from 3600 seconds on,
\* and "0:00" for NaN.
C20_ClockFormat ==
  /\ (last.op = "mediaEvent" /\ last.event = "timeupdate") =>
        IsClock(timeCurrent, currentTime)
  /\ (last.op = "mediaEvent" /\ last.event = "loadedmetadata") =>
        IsClock(timeDuration, duration)

C20_Witness ==
  /\ last.op = "mediaEvent" /\ last.event = "timeupdate"
  /\ currentTime >= 3600 * UnitsPerSecond
  /\ currentTime % UnitsPerSecond # 0
  /\ (currentTime \div UnitsPerSecond) % 60 = 9
  /\ duration = NaN
  /\ timeCurrent # InitialClock

\* The digits that follow a literal at the start of a string that is the
\* literal and digits only.
IdOfShape(s) ==
  LET p == CHOOSE q \in 1..Len(patterns) :
             /\ Len(s) > Len(patterns[q])
             /\ SubSeq(s, 1, Len(patterns[q])) = patterns[q]
             /\ AllDigits(SubSeq(s, Len(patterns[q]) + 1, Len(s)))
  IN SubSeq(s, Len(patterns[p]) + 1, Len(s))

\* The string holds, from place i to place j, a literal and then a whole run
\* of digits.
ShapeAt(s, lit, i, j) ==
  /\ i + Len(lit) <= j /\ j <= Len(s)
  /\ SubSeq(s, i, i + Len(lit) - 1) = lit
  /\ AllDigits(SubSeq(s, i + Len(lit), j))
  /\ j = Len(s) \/ s[j + 1] \notin Digits

ContainsShape(s) ==
  \E p \in 1..Len(patterns), i, j \in 1..Len(s) : ShapeAt(s, patterns[p], i, j)

\* C21 as stated: extractVideoId returns the identifier of a string of one of
\* the three shapes, the input itself when it is digits only, and no match
\* for every other string.
C21_Original ==
  last.op = "extractVideoId" =>
    IF KnownShape(last.url) THEN last.id = IdOfShape(last.url)
    ELSE IF AllDigits(last.url) THEN last.id = last.url
    ELSE last.id = NoMatch

\* C21 amended: extractVideoId returns the identifier of a string of one of
\* the three shapes and the input itself when it is digits only; for any other
\* string it returns the run of digits of a shape the string contains
\* anywhere, and no match exactly when the string contains none.
C21_ExtractVideoId ==
  last.op = "extractVideoId" =>
    /\ KnownShape(last.url) => last.id = IdOfShape(last.url)
    /\ AllDigits(last.url) => last.id = last.url
    /\ last.id = NoMatch <=> (~AllDigits(last.url) /\ ~ContainsShape(last.url))
    /\ (last.id # NoMatch /\ ~AllDigits(last.url)) =>
          \E p \in 1..Len(patterns), i, j \in 1..Len(last.url) :
            /\ ShapeAt(last.url, patterns[p], i, j)
            /\ last.id = SubSeq(last.url, i + Len(patterns[p]), j)

C21_Witness ==
  /\ last.op = "extractVideoId"
  /\ ~KnownShape(last.url) /\ ~AllDigits(last.url)
  /\ last.url # <<>> /\ last.url[Len(last.url)] = "x"
  /\ Len(last.id) = 2

\* The places of a sequence of callbacks that hold one that throws.
ThrowsAt(seq) == {i \in 1..Len(seq) : seq[i] \in Throwing}

\* The first n callbacks of the array were invoked, in order, and no other.
InvokedPrefix(invoked, array, n) ==
  /\ Len(invoked) = n
  /\ \A i \in 1..n : invoked[i].cb = array[i]

\* C22: when a callback throws during an emission, the callbacks subscribed
\* before it have run, those subscribed after it are not invoked in that
\* emission and the exception leaves emit; an emission whose callbacks do not
\* call on/off leaves the registry as it was; and the emission that follows
\* one that was cut short is delivered from the first callback on.
C22_ExceptionsNotIsolated ==
  /\ [](last.op = "mediaEvent" =>
          IF ThrowsAt(last.arrayBefore) = {}
            THEN last.thrown = NULL
            ELSE LET first == CHOOSE i \in ThrowsAt(last.arrayBefore) :
                                \A j \in ThrowsAt(last.arrayBefore) : i <= j
                 IN /\ InvokedPrefix(last.invoked, last.arrayBefore, first)
                    /\ last.thrown # NULL)
  /\ [][(/\ last'.op = "mediaEvent"
         /\ \A i \in 1..Len(last'.invoked) :
               last'.invoked[i].cb \notin ReentrantCallbacks)
          => listeners' = listeners]_vars
  /\ [][(last.op = "mediaEvent" /\ last.thrown # NULL /\ last'.op = "mediaEvent")
          => LET array == Registered(listeners, last'.event)
             IN \A i \in 1..Len(array) :
                  (\A j \in 1..(i - 1) : array[j] \notin Throwing) =>
                     /\ i <= Len(last'.invoked)
                     /\ last'.invoked[i].cb = array[i]]_vars

C22_Witness ==
  /\ last.op = "mediaEvent"
  /\ envEvents = MaxEngineEvents + 1
  /\ last.thrown # NULL
  /\ Len(last.invoked) >= 2
  /\ last.invoked[Len(last.invoked) - 1].cb = "userA"
  /\ Len(last.invoked) < Len(last.arrayBefore)

\* C23: the teardown of the overlay takes the controls out of the container
\* and cancels the pending auto-hide timer, and in every state after it no
\* auto-hide timer is pending, whatever pointer movements and play/pause
\* events follow.
C23_TornDownStays ==
  /\ last.op = "destroy" => controlsElement = "removed"
  /\ controlsElement = "removed" => (DOMAIN timers = {} /\ hideTimeout = 0)

\* The callbacks a sequence holds.
Held(seq) == {seq[i] : i \in 1..Len(seq)}

\* The last step invoked only callbacks of the array the registry held when
\* the emission began, each at its place.
DeliversSnapshot ==
  /\ Len(last.invoked) <= Len(last.arrayBefore)
  /\ \A k \in 1..Len(last.invoked) : last.invoked[k].cb = last.arrayBefore[k]

\* The place i of that array holds a callback the emission took off the
\* registry.
RemovedDuring(i) ==
  last.arrayBefore[i] \notin Held(Registered(listeners, last.event))

\* C24 as stated: an emission delivers to the sequence as it stood when it
\* began: a callback that off() removed during the emission is still invoked
\* in it, a callback that on() added during it is not, and the next emission
\* delivers to the sequence as it then stands.
C24_Original ==
  /\ [](last.op = "mediaEvent" =>
          /\ DeliversSnapshot
          /\ \A i \in 1..Len(last.arrayBefore) :
                RemovedDuring(i) =>
                  i <= Len(last.invoked) /\ last.invoked[i].cb = last.arrayBefore[i])
  /\ [][last'.op = "mediaEvent" =>
          last'.arrayBefore = Registered(listeners, last'.event)]_vars

\* C24 amended: the same, as far as the emission gets: a callback that off()
\* removed during the emission is still invoked in it unless a callback
\* before it in the sequence throws.
C24_DispatchSnapshot ==
  /\ [](last.op = "mediaEvent" =>
          /\ DeliversSnapshot
          /\ \A i \in 1..Len(last.arrayBefore) :
                (RemovedDuring(i) /\ \A j \in 1..(i - 1) : last.arrayBefore[j] \notin Throwing)
                  => i <= Len(last.invoked) /\ last.invoked[i].cb = last.arrayBefore[i])
  /\ [][last'.op = "mediaEvent" =>
          /\ last'.arrayBefore = Registered(listeners, last'.event)
          /\ (ThrowsAt(last'.arrayBefore) = {}) =>
                Len(last'.invoked) = Len(last'.arrayBefore)]_vars

C24_Witness ==
  /\ last.op = "mediaEvent" /\ last.event = "play"
  /\ Len(last.invoked) = Len(last.arrayBefore)
  /\ Len(last.invoked) >= 3
  /\ last.invoked[Len(last.invoked) - 2].cb = "userOnB"
  /\ last.invoked[Len(last.invoked) - 1].cb = "userOffB"
  /\ last.invoked[Len(last.invoked)].cb = "userB"
  /\ "userB" \notin Held(listeners["play"])

\* C25: in every state after the player's destroy() no engine the adapter
\* created is left undestroyed and the media source is cleared, also when
\* loadSource was called more than once before destroy and when a resolution
\* in flight at the time of destroy completes after it.
C25_NothingLeftAfterDestroy ==
  ~videoAttached =>
    /\ \A e \in DOMAIN engines : engines[e].destroyed
    /\ src = ""

\* The resolution of a finished load yielded a source: a direct URL, or a URL
\* from one of the two resolution steps.
ResolutionSucceeded(ld) ==
  \/ ld.kind = "hls"
  \/ ld.playerOutcome = "resolved"
  \/ ld.apiOutcome = "hls"

\* C26: a load can be called while another is in progress; every load whose
\* resolution succeeds invokes loadSource once, in the step in which its
\* resolution completes (a load that has not completed, or whose resolution
\* fails, never), and each such call makes its source the current one: the
\* source finally loaded is that of the load that completed last.
C26_LastCompletedWins ==
  /\ [](\A i \in LoadIds :
          Len(loads[i].calls) =
            IF loads[i].pc = "done" /\ ResolutionSucceeded(loads[i]) THEN 1 ELSE 0)
  /\ [][\A i \in DOMAIN loads' :
          (i \notin DOMAIN loads \/ loads'[i].calls # loads[i].calls) =>
            loads'[i].calls = last'.calls]_vars
  /\ [][last'.calls # <<>> =>
          /\ Len(last'.calls) = 1
          /\ IF hlsSupported
               THEN /\ Len(engines') = Len(engines) + 1
                    /\ hls' = Len(engines')
                    /\ engines'[hls'].url = last'.calls[1]
             ELSE IF canPlayNative
               THEN src' = ToSrc(last'.calls[1])
             ELSE src' = src /\ engines' = engines]_vars

C26_Witness ==
  /\ videoAttached /\ hlsSupported /\ apiVariant = "string"
  /\ Len(loads) = 2
  /\ loads[1].kind = "vimeo" /\ loads[2].kind = "hls"
  /\ last.op = "playerResponse"
  /\ Len(engines) = 2
  /\ engines[1].url = Str("urlDirect")
  /\ hls = 2 /\ engines[hls].url = Str("urlPlayer")

====
